---- MODULE Spec2Model ----
(***************************************************************************)
(* Model of the noise-rust foundation layer:                               *)
(*   - handshakepattern.rs : Token, HandshakePattern, the named patterns   *)
(*   - traits.rs           : U8Array ([u8; 32|64|128]), Hash with the      *)
(*                           derived hmac_many / hmac / hkdf               *)
(* A slice (&[T]) is a TLA+ sequence (1-based); a fixed array [u8; N] is a *)
(* function on 0..N-1, as the code indexes it.                             *)
(***************************************************************************)
EXTENDS Integers, Sequences, FiniteSets, TLC

VARIABLES
    pat,     \* the HandshakePattern the caller holds
    origin,  \* the function that built pat
    buf,     \* the fixed-size byte array the caller holds
    call     \* the last call: operation, arguments, outcome

vars == <<pat, origin, buf, call>>

(***************************************************************************)
(* handshakepattern.rs                                                     *)
(***************************************************************************)

\* enum Token
Token == {"E", "S", "EE", "ES", "SE", "SS", "PSK"}

\* capacity of pre_i / pre_r : ArrayVec<[Token; 4]>
PreCap == 4

\* capacity of one message pattern : ArrayVec<[Token; 8]>
MsgCap == 8

\* capacity of msg_patterns : ArrayVec<[ArrayVec<[Token; 8]>; 8]>
MsgsCap == 8

\* How far beyond a capacity the inputs of new() go.
MaxOver == 1

\* The names new() is called with.
Names == {"custom", "XXpsk"}

\* arrayvec's Extend for ArrayVec<[T; CAP]> (the array-parameter API, arrayvec
\* <= 0.5): takes items while there is room and stops, without an error, when
\* the vector is full; the rest of the iterator is not consumed.
RECURSIVE extend(_, _, _)
extend(v, items, cap) ==
    IF items = <<>> \/ Len(v) >= cap
    THEN v
    ELSE extend(Append(v, Head(items)), Tail(items), cap)

\* Iterator::collect() into an ArrayVec: FromIterator = new() then extend().
collect(items, cap) == extend(<<>>, items, cap)

\* HandshakePattern::new.  collect() has no failing path, so neither has new().
HandshakePattern_new(pre_i, pre_r, msg_patterns, name) ==
    [panicked |-> FALSE,
     value    |->
        [pre_i        |-> collect(pre_i, PreCap),
         pre_r        |-> collect(pre_r, PreCap),
         msg_patterns |-> collect([i \in 1..Len(msg_patterns) |->
                                      collect(msg_patterns[i], MsgCap)], MsgsCap),
         name         |-> name]]

get_pre_i(p) == p.pre_i

get_pre_r(p) == p.pre_r

\* &self.msg_patterns[i], i counted from 0; indexing past the end panics.
get_message_pattern(p, i) ==
    IF i < Len(p.msg_patterns)
    THEN [panicked |-> FALSE, value |-> p.msg_patterns[i + 1]]
    ELSE [panicked |-> TRUE, value |-> <<>>]

get_message_patterns_len(p) == Len(p.msg_patterns)

get_name(p) == p.name

\* Iterator::any over a slice: left to right, stops at the first hit.
RECURSIVE any_psk(_)
any_psk(m) ==
    IF m = <<>> THEN FALSE
    ELSE IF Head(m) = "PSK" THEN TRUE
    ELSE any_psk(Tail(m))

RECURSIVE any_msg(_)
any_msg(ms) ==
    IF ms = <<>> THEN FALSE
    ELSE IF any_psk(Head(ms)) THEN TRUE
    ELSE any_msg(Tail(ms))

\* has_psk that also looks into the pre-messages.
has_psk_with_pre(p) == any_msg(<<p.pre_i, p.pre_r>> \o p.msg_patterns)

has_psk(p) == any_msg(p.msg_patterns)

noise_n ==
    [pre_i |-> <<>>, pre_r |-> <<"S">>,
     msg_patterns |-> << <<"E", "ES">> >>,
     name |-> "N"]

noise_k ==
    [pre_i |-> <<"S">>, pre_r |-> <<"S">>,
     msg_patterns |-> << <<"E", "ES", "SS">> >>,
     name |-> "K"]

noise_x ==
    [pre_i |-> <<>>, pre_r |-> <<"S">>,
     msg_patterns |-> << <<"E", "ES", "S", "SS">> >>,
     name |-> "X"]

noise_nn ==
    [pre_i |-> <<>>, pre_r |-> <<>>,
     msg_patterns |-> << <<"E">>, <<"E", "EE">> >>,
     name |-> "NN"]

noise_nk ==
    [pre_i |-> <<>>, pre_r |-> <<"S">>,
     msg_patterns |-> << <<"E", "ES">>, <<"E", "EE">> >>,
     name |-> "NK"]

noise_nx ==
    [pre_i |-> <<>>, pre_r |-> <<>>,
     msg_patterns |-> << <<"E">>, <<"E", "EE", "S", "ES">> >>,
     name |-> "NX"]

noise_xn ==
    [pre_i |-> <<>>, pre_r |-> <<>>,
     msg_patterns |-> << <<"E">>, <<"E", "EE">>, <<"S", "SE">> >>,
     name |-> "XN"]

noise_xk ==
    [pre_i |-> <<>>, pre_r |-> <<"S">>,
     msg_patterns |-> << <<"E", "ES">>, <<"E", "EE">>, <<"S", "SE">> >>,
     name |-> "XK"]

noise_xx ==
    [pre_i |-> <<>>, pre_r |-> <<>>,
     msg_patterns |-> << <<"E">>, <<"E", "EE", "S", "ES">>, <<"S", "SE">> >>,
     name |-> "XX"]

noise_kn ==
    [pre_i |-> <<"S">>, pre_r |-> <<>>,
     msg_patterns |-> << <<"E">>, <<"E", "EE", "SE">> >>,
     name |-> "KN"]

noise_kk ==
    [pre_i |-> <<"S">>, pre_r |-> <<"S">>,
     msg_patterns |-> << <<"E", "ES", "SS">>, <<"E", "EE", "SE">> >>,
     name |-> "KK"]

noise_kx ==
    [pre_i |-> <<"S">>, pre_r |-> <<>>,
     msg_patterns |-> << <<"E">>, <<"E", "EE", "SE", "S", "ES">> >>,
     name |-> "KX"]

noise_in ==
    [pre_i |-> <<>>, pre_r |-> <<>>,
     msg_patterns |-> << <<"E", "S">>, <<"E", "EE", "SE">> >>,
     name |-> "IN"]

\* noise_ik with S and ES of the first message exchanged.
noise_ik_typo ==
    [pre_i |-> <<>>, pre_r |-> <<"S">>,
     msg_patterns |-> << <<"E", "S", "ES", "SS">>, <<"E", "EE", "SE">> >>,
     name |-> "IK"]

noise_ik ==
    [pre_i |-> <<>>, pre_r |-> <<"S">>,
     msg_patterns |-> << <<"E", "ES", "S", "SS">>, <<"E", "EE", "SE">> >>,
     name |-> "IK"]

noise_ix ==
    [pre_i |-> <<>>, pre_r |-> <<>>,
     msg_patterns |-> << <<"E", "S">>, <<"E", "EE", "SE", "S", "ES">> >>,
     name |-> "IX"]

\* noise_xx_fallback as a plain copy of the last two messages of noise_xx.
noise_xx_fallback_copy ==
    [pre_i |-> <<>>, pre_r |-> <<"E">>,
     msg_patterns |-> << <<"E", "EE", "S", "ES">>, <<"S", "SE">> >>,
     name |-> "XXfallback"]

noise_xx_fallback ==
    [pre_i |-> <<>>, pre_r |-> <<"E">>,
     msg_patterns |-> << <<"E", "EE", "S", "SE">>, <<"S", "ES">> >>,
     name |-> "XXfallback"]

\* The sixteen named constructors, by function name.
Named ==
    [noise_n |-> noise_n, noise_k |-> noise_k, noise_x |-> noise_x,
     noise_nn |-> noise_nn, noise_nk |-> noise_nk, noise_nx |-> noise_nx,
     noise_xn |-> noise_xn, noise_xk |-> noise_xk, noise_xx |-> noise_xx,
     noise_kn |-> noise_kn, noise_kk |-> noise_kk, noise_kx |-> noise_kx,
     noise_in |-> noise_in, noise_ik |-> noise_ik, noise_ix |-> noise_ix,
     noise_xx_fallback |-> noise_xx_fallback]

(***************************************************************************)
(* Callers of the pattern catalog                                          *)
(***************************************************************************)

TokCycle == <<"E", "S", "EE", "ES", "SE", "SS">>

\* n tokens in a fixed order, with PSK at position k (k = 0: no PSK).
TokSeq(n, k) ==
    [i \in 1..n |-> IF i = k THEN "PSK" ELSE TokCycle[((i - 1) % Len(TokCycle)) + 1]]

OverLens(cap) == (cap + 1)..(cap + MaxOver)

PreInputs ==
    {TokSeq(n, k) : n \in {0, PreCap} \cup OverLens(PreCap), k \in {0, 1}}
    \cup {TokSeq(n, n) : n \in {PreCap} \cup OverLens(PreCap)}

SpecialMsgs ==
    {TokSeq(n, k) : n \in {0, MsgCap} \cup OverLens(MsgCap), k \in {0, 1}}
    \cup {TokSeq(n, n) : n \in {MsgCap} \cup OverLens(MsgCap)}

\* m message patterns, the j-th one being q.
MsgList(m, j, q) ==
    [i \in 1..m |-> IF i = j THEN q ELSE TokSeq((i % 3) + 1, 0)]

MsgInputs ==
    {<<>>} \cup
    {MsgList(m, j, q) : m \in {1, 2, MsgsCap} \cup OverLens(MsgsCap),
                        j \in {1, 2, MsgsCap, MsgsCap + 1}, q \in SpecialMsgs}

\* The values of origin once a pattern has been built.
Built == {"new"} \cup DOMAIN Named

Call(op, args, ret, panicked) ==
    [op |-> op, args |-> args, ret |-> ret, panicked |-> panicked]

\* A pattern is constructed once and then held immutably.
CallNew ==
    /\ origin = "none"
    /\ \E pre_i \in PreInputs, pre_r \in PreInputs, msgs \in MsgInputs, name \in Names :
         LET r == HandshakePattern_new(pre_i, pre_r, msgs, name) IN
         /\ pat' = IF r.panicked THEN pat ELSE r.value
         /\ origin' = IF r.panicked THEN "panic" ELSE "new"
         /\ call' = Call("new", [pre_i |-> pre_i, pre_r |-> pre_r,
                                  msg_patterns |-> msgs, name |-> name],
                          <<>>, r.panicked)
         /\ UNCHANGED buf

CallNamed ==
    \E f \in DOMAIN Named :
        /\ origin = "none"
        /\ pat' = Named[f]
        /\ origin' = f
        /\ call' = Call(f, <<>>, <<>>, FALSE)
        /\ UNCHANGED buf

CallGetPreI ==
    /\ origin \in Built
    /\ call' = Call("get_pre_i", <<>>, get_pre_i(pat), FALSE)
    /\ UNCHANGED <<pat, origin, buf>>

CallGetPreR ==
    /\ origin \in Built
    /\ call' = Call("get_pre_r", <<>>, get_pre_r(pat), FALSE)
    /\ UNCHANGED <<pat, origin, buf>>

CallGetMessagePattern ==
    /\ origin \in Built
    /\ \E i \in 0..Len(pat.msg_patterns) :
         LET r == get_message_pattern(pat, i) IN
         /\ call' = Call("get_message_pattern", i, r.value, r.panicked)
         /\ UNCHANGED <<pat, origin, buf>>

CallGetMessagePatternsLen ==
    /\ origin \in Built
    /\ call' = Call("get_message_patterns_len", <<>>, get_message_patterns_len(pat), FALSE)
    /\ UNCHANGED <<pat, origin, buf>>

CallGetName ==
    /\ origin \in Built
    /\ call' = Call("get_name", <<>>, get_name(pat), FALSE)
    /\ UNCHANGED <<pat, origin, buf>>

CallHasPsk ==
    /\ origin \in Built
    /\ call' = Call("has_psk", <<>>, has_psk(pat), FALSE)
    /\ UNCHANGED <<pat, origin, buf>>

\* Nothing has been built or called yet.
Init ==
    /\ origin = "none"
    /\ pat = <<>>
    /\ buf = <<>>
    /\ call = Call("none", <<>>, <<>>, FALSE)

NextPattern ==
    \/ CallNew
    \/ CallNamed
    \/ CallGetPreI
    \/ CallGetPreR
    \/ CallGetMessagePattern
    \/ CallGetMessagePatternsLen
    \/ CallGetName
    \/ CallHasPsk

SpecPattern == Init /\ [][NextPattern]_vars

(***************************************************************************)
(* Claims about the pattern catalog                                        *)
(***************************************************************************)

\* C1: new() panics whenever pre_i or pre_r has more than 4 tokens, there are
\* more than 8 message patterns, or one message pattern has more than 8
\* tokens; it never accepts such an input by dropping the excess.
C1_NewPanicsOverCapacity ==
    call.op = "new" =>
        LET a == call.args IN
        (\/ Len(a.pre_i) > PreCap
         \/ Len(a.pre_r) > PreCap
         \/ Len(a.msg_patterns) > MsgsCap
         \/ \E i \in 1..Len(a.msg_patterns) : Len(a.msg_patterns[i]) > MsgCap)
        => call.panicked

\* C2: has_psk() is true exactly when some token of some message pattern is
\* PSK (pre-message tokens do not count), and it is false for each of the 16
\* named constructors.
C2_HasPskIffPskInMessages ==
    call.op = "has_psk" =>
        /\ call.ret = (\E i \in 1..Len(pat.msg_patterns) :
                          \E j \in 1..Len(pat.msg_patterns[i]) :
                              pat.msg_patterns[i][j] = "PSK")
        /\ origin \in DOMAIN Named => call.ret = FALSE

\* C2 witnesses: has_psk() answered true for a pattern whose only PSK is in a
\* message after the first one.
C2_Witness ==
    /\ call.op = "has_psk"
    /\ call.ret = TRUE
    /\ origin = "new"
    /\ \A j \in 1..Len(pat.msg_patterns[1]) : pat.msg_patterns[1][j] # "PSK"

\* C3: through the accessors, noise_xx() is (<<>>, <<>>, [E] [E,EE,S,ES] [S,SE],
\* "XX"), noise_ik() is (<<>>, [S], [E,ES,S,SS] [E,EE,SE], "IK") and noise_n()
\* is (<<>>, [S], [E,ES], "N").
C3_NamedPatternsAsPublished ==
    LET published ==
            [noise_xx |-> [pre_i |-> <<>>, pre_r |-> <<>>, name |-> "XX",
                           msgs |-> << <<"E">>, <<"E", "EE", "S", "ES">>, <<"S", "SE">> >>],
             noise_ik |-> [pre_i |-> <<>>, pre_r |-> <<"S">>, name |-> "IK",
                           msgs |-> << <<"E", "ES", "S", "SS">>, <<"E", "EE", "SE">> >>],
             noise_n  |-> [pre_i |-> <<>>, pre_r |-> <<"S">>, name |-> "N",
                           msgs |-> << <<"E", "ES">> >>]]
    IN  origin \in DOMAIN published =>
            LET e == published[origin] IN
            /\ call.op = "get_pre_i" => call.ret = e.pre_i
            /\ call.op = "get_pre_r" => call.ret = e.pre_r
            /\ call.op = "get_name" => call.ret = e.name
            /\ call.op = "get_message_patterns_len" => call.ret = Len(e.msgs)
            /\ call.op = "get_message_pattern" =>
                   IF call.args < Len(e.msgs)
                   THEN ~call.panicked /\ call.ret = e.msgs[call.args + 1]
                   ELSE call.panicked

\* C3 witness: the second message pattern of noise_ik() has been read.
C3_Witness ==
    /\ origin = "noise_ik"
    /\ call.op = "get_message_pattern"
    /\ call.args = 1
    /\ call.ret = <<"E", "EE", "SE">>

\* C4 as stated: noise_xx_fallback() has pre-messages <<>> and [E], exactly 2
\* message patterns, and they equal the second and third message patterns of
\* noise_xx() token for token.
C4_FallbackCopiesXX ==
    origin = "noise_xx_fallback" =>
        /\ call.op = "get_pre_i" => call.ret = <<>>
        /\ call.op = "get_pre_r" => call.ret = <<"E">>
        /\ call.op = "get_message_patterns_len" => call.ret = 2
        /\ (call.op = "get_message_pattern" /\ call.args < 2) =>
               /\ ~call.panicked
               /\ call.ret = get_message_pattern(noise_xx, call.args + 1).value

\* C4 amended: noise_xx_fallback() has pre-messages <<>> and [E], exactly 2
\* message patterns, and they equal the second and third message patterns of
\* noise_xx() position by position with the tokens ES and SE exchanged.
C4_FallbackMirrorsXXSwapped ==
    LET swap(t) == IF t = "ES" THEN "SE" ELSE IF t = "SE" THEN "ES" ELSE t
        swapped(m) == [j \in 1..Len(m) |-> swap(m[j])]
    IN  origin = "noise_xx_fallback" =>
            /\ call.op = "get_pre_i" => call.ret = <<>>
            /\ call.op = "get_pre_r" => call.ret = <<"E">>
            /\ call.op = "get_message_patterns_len" => call.ret = 2
            /\ (call.op = "get_message_pattern" /\ call.args < 2) =>
                   /\ ~call.panicked
                   /\ call.ret = swapped(get_message_pattern(noise_xx, call.args + 1).value)

\* C4 witness: the first message pattern of noise_xx_fallback() has been read.
C4_Witness ==
    /\ origin = "noise_xx_fallback"
    /\ call.op = "get_message_pattern"
    /\ call.args = 0
    /\ call.ret = <<"E", "EE", "S", "SE">>

(***************************************************************************)
(* traits.rs : U8Array for [u8; 32], [u8; 64], [u8; 128]                   *)
(***************************************************************************)

\* impl_array!(32); impl_array!(64); impl_array!(128);
ArrayLens == {32, 64, 128}

\* fn new() -> Self { [0u8; $len] }
U8Array_new(n) == [i \in 0..(n - 1) |-> 0]

\* fn new_with(x: u8) -> Self { [x; $len] }
new_with(n, x) == [i \in 0..(n - 1) |-> x]

\* fn len() -> usize { $len }
U8Array_len(n) == n

\* fn as_slice(&self) -> &[u8] { self } : the array seen as a slice.
as_slice(a) == [i \in 1..Cardinality(DOMAIN a) |-> a[i - 1]]

\* fn as_mut(&mut self) -> &mut [u8] { self }, written through at index i.
as_mut_write(a, i, x) == [a EXCEPT ![i] = x]

\* copy_from_slice that copies what fits and leaves the rest of a untouched.
copy_from_slice_lenient(a, data) ==
    [panicked |-> FALSE,
     value    |-> [i \in DOMAIN a |-> IF i < Len(data) THEN data[i + 1] ELSE a[i]]]

\* <[u8]>::copy_from_slice: panics unless both slices have the same length.
copy_from_slice(a, data) ==
    IF Len(data) # Cardinality(DOMAIN a)
    THEN [panicked |-> TRUE, value |-> <<>>]
    ELSE [panicked |-> FALSE, value |-> [i \in DOMAIN a |-> data[i + 1]]]

\* let mut a = [0u8; $len]; a.copy_from_slice(data); a
from_slice(n, data) == copy_from_slice(U8Array_new(n), data)

(***************************************************************************)
(* traits.rs : Hash                                                        *)
(***************************************************************************)

\* A binding of the Hash trait: the lengths of its Block and Output types,
\* each one of the three U8Array implementations.  64/32 and 128/64 are the
\* shapes of SHA-256, BLAKE2s and SHA-512, BLAKE2b; the trait bounds allow the
\* others too, an Output longer than the Block included.
HashBindings ==
    {[block |-> b, output |-> o] : b \in ArrayLens, o \in ArrayLens}

\* fn block_len() -> usize { Self::Block::len() }
block_len(H) == U8Array_len(H.block)

\* fn hash_len() -> usize { Self::Output::len() }
hash_len(H) == U8Array_len(H.output)

\* A hash context: the bytes fed since it was (re)initialised and whether
\* result() has been taken.  misuse records an input() after result() without
\* a reset() in between, whose effect the trait leaves to the binding.  log is
\* the history of the operations on this context; reset() does not erase it.
Default ==
    [data |-> <<>>, finished |-> FALSE, misuse |-> FALSE, log |-> <<>>]

LogEntry(op, data) == [op |-> op, data |-> data]

\* reset() that leaves the context as it is.
reset_keep(h) == [h EXCEPT !.log = Append(@, LogEntry("reset", <<>>))]

\* fn reset(&mut self) { *self = Default::default(); }
reset(h) == [Default EXCEPT !.log = Append(h.log, LogEntry("reset", <<>>))]

\* fn input(&mut self, data: &[u8]) : a required method; a binding absorbs
\* the data in the order given.
input(h, data) ==
    [h EXCEPT !.data = @ \o data,
              !.misuse = @ \/ h.finished,
              !.log = Append(@, LogEntry("input", data))]

\* What the binding used here keeps of data[lo..hi]: a sum in which every
\* byte weighs by its position, so that content, order and length all count.
RECURSIVE absorb(_, _, _)
absorb(data, lo, hi) ==
    IF lo > hi THEN 0
    ELSE IF lo = hi THEN ((lo * lo + 3 * lo + 1) * (data[lo] + 1)) % 65521
    ELSE LET mid == (lo + hi) \div 2 IN
         (absorb(data, lo, mid) + absorb(data, mid + 1, hi)) % 65521

\* The digest of the binding used here: hash_len bytes computed from every
\* byte absorbed, in order.
digest(H, data) ==
    LET a == (absorb(data, 1, Len(data)) + 7 * Len(data) + 7) % 65521 IN
    [i \in 0..(hash_len(H) - 1) |-> (a * (2 * i + 1) + (a \div 256) + i) % 256]

\* fn result(&mut self) -> Self::Output : a required method.
result(H, h) ==
    [out |-> digest(H, h.data),
     h   |-> [h EXCEPT !.finished = TRUE,
                       !.log = Append(@, LogEntry("result", <<>>))]]

\* fn hash(data) : a fresh context, one input, result.
hash(H, data) == result(H, input(Default, data)).out

\* u8 ^ u8
RECURSIVE xor(_, _)
xor(a, b) ==
    IF a = 0 THEN b
    ELSE IF b = 0 THEN a
    ELSE ((a + b) % 2) + 2 * xor(a \div 2, b \div 2)

\* for count in 0..key.len() { ipad.as_mut()[count] ^= key[count]; ... }
\* for one of the two pads: every index below key.len() is visited once.
xor_key(pad, key) ==
    [count \in DOMAIN pad |->
        IF count < Len(key) THEN xor(pad[count], key[count + 1]) ELSE pad[count]]

\* The loop feeding only the first message.
input_first(h, data) ==
    IF data = <<>> THEN h ELSE input(h, Head(data))

\* for d in data { hasher.input(d); }
RECURSIVE input_all(_, _)
input_all(h, data) ==
    IF data = <<>> THEN h
    ELSE input_all(input(h, Head(data)), Tail(data))

\* The assertion with < in place of <=.
key_fits_strict(H, key) == Len(key) < block_len(H)

\* assert!(key.len() <= Self::block_len());
key_fits(H, key) == Len(key) <= block_len(H)

\* fn hmac_many(key, data).  created counts the hash contexts made.
hmac_many(H, key, data) ==
    IF ~key_fits(H, key)
    THEN [panicked |-> TRUE, out |-> <<>>, log |-> <<>>, created |-> 0]
    ELSE
        LET ipad == xor_key(new_with(H.block, 54), key)
            opad == xor_key(new_with(H.block, 92), key)
            h1   == input(Default, as_slice(ipad))
            h2   == input_all(h1, data)
            r1   == result(H, h2)
            h3   == reset(r1.h)
            h4   == input(h3, as_slice(opad))
            h5   == input(h4, as_slice(r1.out))
            r2   == result(H, h5)
        IN  [panicked |-> FALSE, out |-> r2.out, log |-> r2.h.log, created |-> 1]

\* fn hmac(key, data) { Self::hmac_many(key, &[data]) }
hmac(H, key, data) == hmac_many(H, key, <<data>>)

HkdfPanic(stage) == [panicked |-> TRUE, stage |-> stage, out |-> <<>>]

\* hkdf returning its two outputs in the other order.
hkdf_swapped(H, chaining_key, input_key_material) ==
    LET temp_key == hmac(H, chaining_key, input_key_material) IN
    IF temp_key.panicked THEN HkdfPanic("temp_key") ELSE
    LET out1 == hmac(H, as_slice(temp_key.out), <<1>>) IN
    IF out1.panicked THEN HkdfPanic("out1") ELSE
    LET out2 == hmac_many(H, as_slice(temp_key.out), <<as_slice(out1.out), <<2>>>>) IN
    IF out2.panicked THEN HkdfPanic("out2") ELSE
    [panicked |-> FALSE, stage |-> "done", out |-> <<out2.out, out1.out>>]

\* hkdf keying out1 and out2 by chaining_key instead of temp_key.
hkdf_by_chaining_key(H, chaining_key, input_key_material) ==
    LET temp_key == hmac(H, chaining_key, input_key_material) IN
    IF temp_key.panicked THEN HkdfPanic("temp_key") ELSE
    LET out1 == hmac(H, chaining_key, <<1>>) IN
    IF out1.panicked THEN HkdfPanic("out1") ELSE
    LET out2 == hmac_many(H, chaining_key, <<as_slice(out1.out), <<2>>>>) IN
    IF out2.panicked THEN HkdfPanic("out2") ELSE
    [panicked |-> FALSE, stage |-> "done", out |-> <<out1.out, out2.out>>]

\* fn hkdf(chaining_key, input_key_material) -> (Output, Output).  A panic of
\* one of the three HMAC calls ends it; stage names the call that panicked.
hkdf(H, chaining_key, input_key_material) ==
    LET temp_key == hmac(H, chaining_key, input_key_material) IN
    IF temp_key.panicked THEN HkdfPanic("temp_key") ELSE
    LET out1 == hmac(H, as_slice(temp_key.out), <<1>>) IN
    IF out1.panicked THEN HkdfPanic("out1") ELSE
    LET out2 == hmac_many(H, as_slice(temp_key.out), <<as_slice(out1.out), <<2>>>>) IN
    IF out2.panicked THEN HkdfPanic("out2") ELSE
    [panicked |-> FALSE, stage |-> "done", out |-> <<out1.out, out2.out>>]

(***************************************************************************)
(* Callers of the byte arrays                                              *)
(***************************************************************************)

\* How far from the array length the slices given to from_slice go.
MaxDelta == 1

\* n bytes starting at seed, each 7 more than the one before (mod 256).
Bytes(n, seed) == [i \in 1..n |-> (seed + 7 * (i - 1)) % 256]

SliceSeeds == {1, 200}

FillBytes == {0, 54, 92, 255}

SliceInputs(n) ==
    {Bytes(m, seed) : m \in {0} \cup ((n - MaxDelta)..(n + MaxDelta)), seed \in SliceSeeds}

ArrayBuilt == {"U8Array_new", "new_with", "from_slice"}

CallU8ArrayNew ==
    /\ origin = "none"
    /\ \E n \in ArrayLens :
         /\ buf' = U8Array_new(n)
         /\ origin' = "U8Array_new"
         /\ call' = Call("U8Array_new", [n |-> n], <<>>, FALSE)
         /\ UNCHANGED pat

CallNewWith ==
    /\ origin = "none"
    /\ \E n \in ArrayLens, x \in FillBytes :
         /\ buf' = new_with(n, x)
         /\ origin' = "new_with"
         /\ call' = Call("new_with", [n |-> n, x |-> x], <<>>, FALSE)
         /\ UNCHANGED pat

CallFromSlice ==
    /\ origin = "none"
    /\ \E n \in ArrayLens :
         \E data \in SliceInputs(n) :
            LET r == from_slice(n, data) IN
            /\ buf' = IF r.panicked THEN buf ELSE r.value
            /\ origin' = IF r.panicked THEN "panic" ELSE "from_slice"
            /\ call' = Call("from_slice", [n |-> n, data |-> data], <<>>, r.panicked)
            /\ UNCHANGED pat

CallLen ==
    /\ origin \in ArrayBuilt
    /\ call' = Call("len", <<>>, U8Array_len(Cardinality(DOMAIN buf)), FALSE)
    /\ UNCHANGED <<pat, origin, buf>>

CallAsSlice ==
    /\ origin \in ArrayBuilt
    /\ call' = Call("as_slice", <<>>, as_slice(buf), FALSE)
    /\ UNCHANGED <<pat, origin, buf>>

\* One byte written through as_mut(), at either end of the array.
CallAsMut ==
    /\ origin \in ArrayBuilt
    /\ \E i \in {0, Cardinality(DOMAIN buf) - 1}, x \in {0, 255} :
         /\ buf' = as_mut_write(buf, i, x)
         /\ call' = Call("as_mut", [i |-> i, x |-> x], <<>>, FALSE)
         /\ UNCHANGED <<pat, origin>>

\* from_slice(x.as_slice()) for the array x held, at x's own type.
CallRoundTrip ==
    /\ origin \in ArrayBuilt
    /\ LET r == from_slice(Cardinality(DOMAIN buf), as_slice(buf)) IN
       call' = Call("round_trip", buf, r.value, r.panicked)
    /\ UNCHANGED <<pat, origin, buf>>

NextArray ==
    \/ CallU8ArrayNew
    \/ CallNewWith
    \/ CallFromSlice
    \/ CallLen
    \/ CallAsSlice
    \/ CallAsMut
    \/ CallRoundTrip

SpecArray == Init /\ [][NextArray]_vars

(***************************************************************************)
(* Callers of the hash constructions                                       *)
(***************************************************************************)

\* How far beyond block_len() the keys go.
MaxKeyOver == 1

\* The longest message and the longest list of messages.
MaxMsgLen == 2

MaxMsgs == 2

KeySeeds == {170}

MsgSeeds == {1, 92}

KeyInputs(H) ==
    {Bytes(n, seed) :
        n \in {0, 1, hash_len(H), block_len(H) - 1, block_len(H)}
               \cup ((block_len(H) + 1)..(block_len(H) + MaxKeyOver)),
        seed \in KeySeeds}

MsgInputs1 == {Bytes(n, seed) : n \in 0..MaxMsgLen, seed \in MsgSeeds}

MsgListInputs ==
    UNION {[1..m -> MsgInputs1] : m \in 0..MaxMsgs}

CallHash ==
    /\ origin = "none"
    /\ \E H \in HashBindings, data \in MsgInputs1 :
         /\ call' = Call("hash", [H |-> H, data |-> data], hash(H, data), FALSE)
         /\ origin' = "hash"
         /\ UNCHANGED <<pat, buf>>

CallHmacMany ==
    /\ origin = "none"
    /\ \E H \in HashBindings :
         \E key \in KeyInputs(H), data \in MsgListInputs :
            LET r == hmac_many(H, key, data) IN
            /\ call' = Call("hmac_many", [H |-> H, key |-> key, data |-> data],
                             r, r.panicked)
            /\ origin' = "hmac_many"
            /\ UNCHANGED <<pat, buf>>

CallHmac ==
    /\ origin = "none"
    /\ \E H \in HashBindings :
         \E key \in KeyInputs(H), data \in MsgInputs1 :
            LET r == hmac(H, key, data) IN
            /\ call' = Call("hmac", [H |-> H, key |-> key, data |-> data],
                             r, r.panicked)
            /\ origin' = "hmac"
            /\ UNCHANGED <<pat, buf>>

CallHkdf ==
    /\ origin = "none"
    /\ \E H \in HashBindings :
         \E ck \in KeyInputs(H), ikm \in MsgInputs1 :
            LET r == hkdf(H, ck, ikm) IN
            /\ call' = Call("hkdf", [H |-> H, chaining_key |-> ck,
                                      input_key_material |-> ikm],
                             r, r.panicked)
            /\ origin' = "hkdf"
            /\ UNCHANGED <<pat, buf>>

NextHash ==
    \/ CallHash
    \/ CallHmacMany
    \/ CallHmac
    \/ CallHkdf

SpecHash == Init /\ [][NextHash]_vars

(***************************************************************************)
(* Claims about the byte arrays and the hash constructions                 *)
(***************************************************************************)

\* C5: for N in {32, 64, 128}, from_slice(s) succeeds exactly when len(s) = N,
\* the array it returns then reads back as s byte for byte, a slice of another
\* length makes it panic, and from_slice(x.as_slice()) = x for every array x.
C5_FromSliceExactLength ==
    /\ call.op = "from_slice" =>
           /\ ~call.panicked <=> Len(call.args.data) = call.args.n
           /\ ~call.panicked =>
                  /\ U8Array_len(Cardinality(DOMAIN buf)) = call.args.n
                  /\ as_slice(buf) = call.args.data
    /\ call.op = "round_trip" =>
           /\ ~call.panicked
           /\ call.ret = call.args

\* C5 witness: a 64-byte slice with a non-zero last byte became a [u8; 64].
C5_Witness ==
    /\ call.op = "from_slice"
    /\ ~call.panicked
    /\ call.args.n = 64
    /\ buf[63] = call.args.data[64]
    /\ buf[63] # 0

\* C6: for key.len() <= block_len(), hmac_many(key, msgs) is
\* hash(opad || hash(ipad || msg_1 || .. || msg_n)) with ipad/opad the block of
\* 0x36/0x5c XORed with the key in its leading bytes, and its one hash context
\* sees input(ipad), input(msg_1) .. input(msg_n), result, reset, input(opad),
\* input(inner), result: no input follows a result without a reset between.
C6_HmacManyIsHmac ==
    (call.op = "hmac_many" /\ Len(call.args.key) <= block_len(call.args.H)) =>
        LET H    == call.args.H
            key  == call.args.key
            msgs == call.args.data
            pad(c) == [i \in 1..block_len(H) |->
                          IF i <= Len(key) THEN xor(c, key[i]) ELSE c]
            ipad == pad(54)
            opad == pad(92)
            RECURSIVE cat(_)
            cat(ms) == IF ms = <<>> THEN <<>> ELSE Head(ms) \o cat(Tail(ms))
            all  == cat(msgs)
            inner == as_slice(hash(H, ipad \o all))
            log  == call.ret.log
        IN  /\ ~call.panicked
            /\ call.ret.out = hash(H, opad \o inner)
            /\ call.ret.created = 1
            /\ log = <<LogEntry("input", ipad)>>
                      \o [i \in 1..Len(msgs) |-> LogEntry("input", msgs[i])]
                      \o <<LogEntry("result", <<>>), LogEntry("reset", <<>>),
                            LogEntry("input", opad), LogEntry("input", inner),
                            LogEntry("result", <<>>)>>
            /\ \A i, j \in 1..Len(log) :
                   (i < j /\ log[i].op = "result" /\ log[j].op = "input") =>
                       \E k \in (i + 1)..(j - 1) : log[k].op = "reset"

\* C6 witness: hmac_many ran on two non-empty messages with a non-empty key
\* shorter than the block.
C6_Witness ==
    /\ call.op = "hmac_many"
    /\ ~call.panicked
    /\ Len(call.args.key) > 0
    /\ Len(call.args.key) < block_len(call.args.H)
    /\ Len(call.args.data) = 2
    /\ \A i \in 1..2 : Len(call.args.data[i]) > 0
    /\ Len(call.ret.log) = 8

\* C7: for key.len() <= block_len(), hmac_many(key, msgs) equals
\* hmac(key, msg_1 || .. || msg_n): the result depends only on the
\* concatenation of the messages, in particular
\* hmac_many(key, [a, b]) = hmac(key, a || b).
C7_HmacManySplitIndependent ==
    (call.op = "hmac_many" /\ Len(call.args.key) <= block_len(call.args.H)) =>
        LET msgs == call.args.data
            RECURSIVE joined(_)
            joined(ms) == IF ms = <<>> THEN <<>> ELSE Head(ms) \o joined(Tail(ms))
            all  == joined(msgs)
        IN  /\ ~call.panicked
            /\ call.ret.out = hmac(call.args.H, call.args.key, all).out

\* C7 witness: hmac_many ran on [a, b] with a and b different and non-empty.
C7_Witness ==
    /\ call.op = "hmac_many"
    /\ ~call.panicked
    /\ Len(call.args.data) = 2
    /\ Len(call.args.data[1]) > 0
    /\ Len(call.args.data[2]) > 0
    /\ call.args.data[1] # call.args.data[2]

\* C8: when hkdf returns, it returns (out1, out2) in that order with
\* temp_key = hmac(chaining_key, input_key_material),
\* out1 = hmac(temp_key, [0x01]) and out2 = hmac(temp_key, out1 || [0x02]).
C8_HkdfOutputs ==
    (call.op = "hkdf" /\ ~call.panicked) =>
        LET H        == call.args.H
            temp_key == as_slice(hmac(H, call.args.chaining_key,
                                      call.args.input_key_material).out)
            out1     == hmac(H, temp_key, <<1>>).out
            out2     == hmac(H, temp_key, as_slice(out1) \o <<2>>).out
        IN  /\ Len(call.ret.out) = 2
            /\ call.ret.out[1] = out1
            /\ call.ret.out[2] = out2

\* C8 witness: hkdf returned two different outputs for a non-empty chaining
\* key and non-empty input key material.
C8_Witness ==
    /\ call.op = "hkdf"
    /\ ~call.panicked
    /\ Len(call.args.chaining_key) > 0
    /\ Len(call.args.input_key_material) > 0
    /\ call.ret.out[1] # call.ret.out[2]

\* C9: hmac_many and hmac panic exactly when key.len() > block_len(), and then
\* before any hash context is created or fed; for key.len() <= block_len(),
\* the empty key and a key of exactly block_len() bytes included, they return,
\* and the key enters the pads untruncated and unhashed.
C9_HmacKeyLength ==
    call.op \in {"hmac_many", "hmac"} =>
        LET H   == call.args.H
            key == call.args.key
        IN  /\ call.panicked <=> Len(key) > block_len(H)
            /\ call.panicked => (call.ret.created = 0 /\ call.ret.log = <<>>)
            /\ ~call.panicked =>
                   /\ call.ret.created = 1
                   /\ Cardinality(DOMAIN call.ret.out) = hash_len(H)
                   /\ \A i \in 1..Len(key) :
                          /\ call.ret.log[1].data[i] = xor(54, key[i])
                          /\ call.ret.log[Len(call.ret.log) - 2].data[i] = xor(92, key[i])

\* C9 witness: hmac returned for a key of exactly block_len() bytes.
C9_Witness ==
    /\ call.op = "hmac"
    /\ ~call.panicked
    /\ Len(call.args.key) = block_len(call.args.H)

\* C10: hkdf panics exactly when chaining_key.len() > block_len() or
\* hash_len() > block_len(), and only through the key-length assertion of one
\* of its HMAC calls: the first for a long chaining key, else the second,
\* whose key is the hash_len()-byte temp_key.
C10_HkdfFailsByKeyLength ==
    call.op = "hkdf" =>
        LET H  == call.args.H
            ck == call.args.chaining_key
        IN  /\ call.panicked <=> (Len(ck) > block_len(H) \/ hash_len(H) > block_len(H))
            /\ call.ret.stage = "temp_key" <=> Len(ck) > block_len(H)
            /\ call.ret.stage = "out1" <=>
                   (Len(ck) <= block_len(H) /\ hash_len(H) > block_len(H))
            /\ call.ret.stage # "out2"

\* C10 witness: hkdf panicked on a binding whose output is longer than its
\* block, for a chaining key that fits the block.
C10_Witness ==
    /\ call.op = "hkdf"
    /\ call.panicked
    /\ hash_len(call.args.H) > block_len(call.args.H)
    /\ Len(call.args.chaining_key) <= block_len(call.args.H)

====
